---- MODULE Spec2Model ----
(***************************************************************************)
(* Model of the default command of html-sketchapp-cli (src/bin/cli.js,     *)
(* lines 89-166): the capture pipeline that optionally starts a static     *)
(* server, launches a browser, navigates, injects the extraction script,   *)
(* loops over the viewports, writes one file per viewport and tears the    *)
(* resources down in nested finally blocks.                                *)
(*                                                                         *)
(* The handler is one async function on a single-threaded event loop.      *)
(* Every action below is one run-to-completion step of that loop: the      *)
(* settling of the operation the handler awaits (or of an un-awaited file  *)
(* write), followed by all the synchronous code up to the next await,      *)
(* the finally blocks and the catch clause included.                       *)
(*                                                                         *)
(* An operation that never settles is a behaviour that stutters forever.   *)
(* Rejections nobody handles (an un-awaited write failing before           *)
(* Promise.all is reached, browser.close() failing) follow the language    *)
(* semantics: they do not alter the control flow of the handler.           *)
(***************************************************************************)
EXTENDS Integers, Sequences, FiniteSets, TLC

VARIABLES
  argv,          \* the parsed command line (immutable during a run)
  stable,        \* TRUE: page content fixed and extraction deterministic
  run,           \* number of the current invocation of the command
  prev,          \* the files the previous invocation left
  pc,            \* the operation the handler awaits, or its final position
  port,          \* const port (line 91), 0 for null
  server,        \* const server (line 92): "null", "listening", "closed"
  symbolsUrl,    \* const symbolsUrl (line 96)
  browser,       \* const browser (line 106): "none","running","closing","closed"
  pageViewport,  \* the viewport the page currently has
  extractedAt,   \* the viewport the page had when page.evaluate last returned
  i,             \* position of the for-in loop in the viewports (line 130)
  asketchPageJSONString,  \* let asketchPageJSONString (line 128)
  writes,        \* asketchPageJSONStringPromises with the state of each write
  files,         \* the file system under the output directory
  outDirExists,  \* whether the output directory exists
  calls,         \* how many times each asynchronous operation was started
  done,          \* how many times each asynchronous operation was fulfilled
  log,           \* teardown and reporting calls, in the order they were made
  firstErr,      \* the first error raised in the run
  reported,      \* the error passed to console.error (line 163)
  exitStatus     \* status the process ended with, or NoStatus

vars == <<argv, stable, run, prev, pc, port, server, symbolsUrl, browser,
          pageViewport, extractedAt, i, asketchPageJSONString, writes, files,
          outDirExists, calls, done, log, firstErr, reported, exitStatus>>

(***************************************************************************)
(* Bounds of the model.                                                    *)
(***************************************************************************)
MaxViewports == 2
MaxRuns == 2

(***************************************************************************)
(* Values.                                                                 *)
(***************************************************************************)
Undefined == "<undefined>"
Unset == "<unset>"
Absent == "<absent>"
NoError == "<none>"
NoStatus == 0 - 1
\* line 164 with the status of a normal end.
ExitFailureZero == 1 - 1

\* line 164: process.exit(1)
ExitFailure == 1

Cwd == "/w"
OutDir == "out"
Ports == {3000, 3001}
NamePool == <<"Desktop", "Mobile", "Tablet", "Watch">>
SpecStrs == {"1024x768", "320x568@2"}
Documents == {"docA", "docB"}

\* Number.NaN, which parseInt and parseFloat return for a text that does not
\* start with a number.
NaN == 0 - 1

\* A scale factor with one decimal place.
Scale(whole, tenths) == [whole |-> whole, tenths |-> tenths]

\* The viewport of a page puppeteer has just opened.
DefaultPageViewport ==
  [width |-> 800, height |-> 600, deviceScaleFactor |-> Scale(1, 0)]

Ops == {"getPort", "listen", "launch", "newPage", "goto", "addScriptTag",
        "setViewport", "evaluate", "mkdirp", "writeFile"}

\* line 127: argv.viewports || { Desktop: '1024x768' }
DefaultViewports == << [name |-> "Desktop", spec |-> "1024x768"] >>

Viewports(a) == IF a.viewports = << >> THEN DefaultViewports ELSE a.viewports

\* The named viewport mappings of at most MaxViewports entries, in insertion
\* order; << >> stands for the option being absent.
ViewportMappings ==
  { << >> } \cup
  UNION { { [k \in 1..n |-> [name |-> NamePool[k], spec |-> f[k]]] :
              f \in [1..n -> SpecStrs] } : n \in 1..MaxViewports }

Truthy(v) == v # Undefined /\ v # ""

(***************************************************************************)
(* Lines 133-135: the viewport spec is split and its parts are converted.  *)
(***************************************************************************)
Char(s, k) == SubSeq(s, k, k)

RECURSIVE IndexFrom(_, _, _)
\* The first position at or after k at which s has the character c, or 0.
IndexFrom(s, c, k) ==
  IF k > Len(s) THEN 0
  ELSE IF Char(s, k) = c THEN k
  ELSE IndexFrom(s, c, k + 1)

\* const [ a, b ] = s.split(c): the text before the first c, and the text
\* between the first c and the second, undefined when s has no c.
Split2(s, c) ==
  LET p == IndexFrom(s, c, 1)
      q == IF p = 0 THEN 0 ELSE IndexFrom(s, c, p + 1)
  IN  IF p = 0 THEN <<s, Undefined>>
      ELSE <<SubSeq(s, 1, p - 1),
             SubSeq(s, p + 1, IF q = 0 THEN Len(s) ELSE q - 1)>>

Digits == <<"0", "1", "2", "3", "4", "5", "6", "7", "8", "9">>
IsDigit(c) == \E d \in 1..Len(Digits) : Digits[d] = c
DigitVal(c) == (CHOOSE d \in 1..Len(Digits) : Digits[d] = c) - 1

RECURSIVE DigitsEnd(_, _)
\* The position of the last digit of the run of digits of s that starts at k
\* (k - 1 when there is none).
DigitsEnd(s, k) ==
  IF k <= Len(s) /\ IsDigit(Char(s, k)) THEN DigitsEnd(s, k + 1) ELSE k - 1

RECURSIVE Decimal(_, _, _)
\* The value of the digits of s from position k to position e.
Decimal(s, k, e) ==
  IF k > e THEN 0
  ELSE Decimal(s, k, e - 1) * 10 + DigitVal(Char(s, e))

\* parseInt(x, 10) for a text without sign or leading blanks: the value of
\* its leading digits, whatever follows them; NaN without a leading digit
\* and for undefined.
ParseInt(x) ==
  IF x = Undefined THEN NaN
  ELSE LET e == DigitsEnd(x, 1)
       IN  IF e = 0 THEN NaN ELSE Decimal(x, 1, e)

\* parseFloat(x) for a text without sign, exponent or leading blanks and at
\* most one decimal place.
ParseFloat(x) ==
  LET e == DigitsEnd(x, 1)
  IN  IF e = 0 THEN Scale(NaN, 0)
      ELSE IF e + 2 <= Len(x) /\ Char(x, e + 1) = "." /\ IsDigit(Char(x, e + 2))
        THEN Scale(Decimal(x, 1, e), DigitVal(Char(x, e + 2)))
        ELSE Scale(Decimal(x, 1, e), 0)

\* lines 133-136: the argument of page.setViewport for a viewport spec.
ParseViewport(viewport) ==
  LET sizeScale == Split2(viewport, "@")
      size == sizeScale[1]
      scale == sizeScale[2]
      widthHeight == Split2(size, "x")
  IN  [width |-> ParseInt(widthHeight[1]),
       height |-> ParseInt(widthHeight[2]),
       deviceScaleFactor |->
         IF scale = Undefined THEN Scale(1, 0) ELSE ParseFloat(scale)]

\* path.join(a, b) for a relative b: a leading "./" of b is dropped.
PathJoin(a, b) ==
  IF Len(b) >= 2 /\ SubSeq(b, 1, 2) = "./"
    THEN a \o "/" \o SubSeq(b, 3, Len(b))
    ELSE a \o "/" \o b

RECURSIVE StripLeadingSlashes(_)
StripLeadingSlashes(s) ==
  IF Len(s) >= 1 /\ SubSeq(s, 1, 1) = "/"
    THEN StripLeadingSlashes(SubSeq(s, 2, Len(s)))
    ELSE s

\* urlJoin(origin, rel), origin without a trailing slash: the parts are
\* joined by exactly one slash.
urlJoin(origin, rel) == origin \o "/" \o StripLeadingSlashes(rel)

PortString(p) == IF p = 3000 THEN "3000" ELSE IF p = 3001 THEN "3001" ELSE "null"

\* line 95 with a default for a missing url.
ResolveUrlDefaulted(a) ==
  IF Truthy(a.file) THEN "file://" \o PathJoin(Cwd, a.file)
  ELSE IF Truthy(a.url) THEN a.url ELSE "/"

\* line 95
ResolveUrl(a) ==
  IF Truthy(a.file) THEN "file://" \o PathJoin(Cwd, a.file) ELSE a.url

\* line 96 with the file tested before serve.
ResolveSymbolsUrlFileFirst(a, p) ==
  IF Truthy(a.file) THEN ResolveUrl(a)
  ELSE IF Truthy(a.serve)
    THEN urlJoin("http://localhost:" \o PortString(p),
                 IF Truthy(a.url) THEN a.url ELSE "/")
    ELSE a.url

\* line 96
ResolveSymbolsUrl(a, p) ==
  IF Truthy(a.serve)
    THEN urlJoin("http://localhost:" \o PortString(p),
                 IF Truthy(a.url) THEN a.url ELSE "/")
    ELSE ResolveUrl(a)

\* The parts a viewport spec is put together from, well-formed or not, with
\* what each part is meant to say.
WidthTexts ==
  { [text |-> "1024", numeric |-> TRUE, val |-> 1024],
    [text |-> "320", numeric |-> TRUE, val |-> 320],
    [text |-> "12p", numeric |-> FALSE, val |-> NaN],
    [text |-> "abc", numeric |-> FALSE, val |-> NaN] }

HeightTexts ==
  { [text |-> "768", numeric |-> TRUE, val |-> 768],
    [text |-> "568", numeric |-> TRUE, val |-> 568],
    [text |-> "7e2", numeric |-> FALSE, val |-> NaN],
    [text |-> "", numeric |-> FALSE, val |-> NaN] }

ScaleTexts ==
  { [text |-> "", val |-> Scale(1, 0)],
    [text |-> "@2", val |-> Scale(2, 0)],
    [text |-> "@1.5", val |-> Scale(1, 5)],
    [text |-> "@0.5", val |-> Scale(0, 5)] }

ParseCases ==
  { [spec |-> w.text \o "x" \o h.text \o sc.text,
     width |-> w.val, height |-> h.val, scale |-> sc.val,
     numeric |-> w.numeric /\ h.numeric] :
      w \in WidthTexts, h \in HeightTexts, sc \in ScaleTexts }

\* lines 132-136 for every spec string of the model, computed once.
ViewportOf ==
  [s \in SpecStrs \cup { c.spec : c \in ParseCases } |-> ParseViewport(s)]

\* lines 142 and 145
OutputPath == PathJoin(Cwd, OutDir)

\* line 145 with a file name that leaves the viewport out.
OutputPagePathBare(viewport) == PathJoin(OutputPath, "page.asketch.json")

OutputPagePath(viewport) ==
  PathJoin(OutputPath, "page-" \o viewport \o ".asketch.json")

\* The files the run may write.
OutPaths ==
  { OutputPagePath(Viewports(argv)[k].spec) : k \in 1..Len(Viewports(argv)) }

\* The document page2layers.run() returns for a page of fixed content, which
\* lays out differently at the width 1024 and at the other widths.
PageDocument(viewport) ==
  IF viewport.width = 1024 THEN "docA" ELSE "docB"

(***************************************************************************)
(* The state after yargs has parsed the command line and before the        *)
(* handler of the default command runs.                                    *)
(***************************************************************************)
Argvs ==
  [serve : {Undefined, "site"},
   file : {Undefined, "./a.html"},
   url : {Undefined, "/sub", "http://ex.com/p"},
   debug : BOOLEAN,
   viewports : ViewportMappings]

NoFiles == [p \in OutPaths |-> Absent]

RunInit ==
  /\ pc = "start"
  /\ port = 0
  /\ server = "null"
  /\ symbolsUrl = Unset
  /\ browser = "none"
  /\ pageViewport = DefaultPageViewport
  /\ extractedAt = DefaultPageViewport
  /\ i = 1
  /\ asketchPageJSONString = Undefined
  /\ writes = << >>
  /\ calls = [op \in Ops |-> 0]
  /\ done = [op \in Ops |-> 0]
  /\ log = << >>
  /\ firstErr = NoError
  /\ reported = NoError
  /\ exitStatus = NoStatus

Init ==
  /\ argv \in Argvs
  /\ stable \in BOOLEAN
  /\ run = 1
  /\ prev = NoFiles
  /\ files = NoFiles
  /\ outDirExists = FALSE
  /\ RunInit

(***************************************************************************)
(* Helpers of the actions.                                                 *)
(***************************************************************************)
Call(op) == calls' = [calls EXCEPT ![op] = @ + 1]

Done(op) == done' = [done EXCEPT ![op] = @ + 1]

Raise(e) == firstErr' = IF firstErr = NoError THEN e ELSE firstErr

IdxStr == <<"1", "2", "3", "4">>
WriteError(k) == "writeFile#" \o IdxStr[k]

\* The try blocks an awaited operation is inside of: 0 for line 91-92 (outer
\* catch only), 1 for line 106 (server finally), 2 for lines 109-151 (both).
ScopeOf(p) ==
  IF p \in {"getPort", "listen"} THEN 0
  ELSE IF p = "launch" THEN 1
  ELSE 2

\* line 153 without the test of debug.
CloseBrowserCondAlways(scope) == scope >= 2 /\ browser = "running"

\* line 153: if (browser && typeof browser.close === 'function' && !debug)
CloseBrowserCond(scope) == scope >= 2 /\ browser = "running" /\ ~argv.debug

\* line 158 moved into the inner finally block.
CloseServerCondInner(scope) == scope >= 2 /\ server = "listening"

\* line 158: if (server && typeof server.close === 'function')
CloseServerCond(scope) == scope >= 1 /\ server = "listening"

\* lines 152-165 with the two finally blocks exchanged.
TeardownLogServerFirst(lg, closeB, closeS, e) ==
  LET lg1 == IF closeS THEN Append(lg, "server.close") ELSE lg
      lg2 == IF closeB THEN Append(lg1, "browser.close") ELSE lg1
  IN  IF e # NoError THEN lg2 \o <<"console.error", "process.exit">> ELSE lg2

\* lines 152-165: the calls made by the finally blocks and the catch clause,
\* in program order, appended to the log lg.
TeardownLog(lg, closeB, closeS, e) ==
  LET lg1 == IF closeB THEN Append(lg, "browser.close") ELSE lg
      lg2 == IF closeS THEN Append(lg1, "server.close") ELSE lg1
  IN  IF e # NoError THEN lg2 \o <<"console.error", "process.exit">> ELSE lg2

\* lines 152-165: leaving the try blocks of depth scope, normally
\* (e = NoError) or with the exception e.
Teardown(scope, e) ==
  LET closeB == CloseBrowserCond(scope)
      closeS == CloseServerCond(scope)
  IN  /\ log' = TeardownLog(log, closeB, closeS, e)
      /\ browser' = IF closeB THEN "closing" ELSE browser
      /\ server' = IF closeS THEN "closed" ELSE server
      /\ reported' = e
      /\ exitStatus' = IF e # NoError THEN ExitFailure ELSE exitStatus
      /\ pc' = IF e # NoError THEN "exited" ELSE "returned"

Alive == exitStatus = NoStatus

FailedWrites(ws) == { k \in 1..Len(ws) : ws[k].st = "failed" }

Min(S) == CHOOSE x \in S : \A y \in S : x <= y

\* line 151 awaiting asketchPageJSONPromise, the last write, alone.
LastFulfilled(ws) == ws[Len(ws)].st = "ok"

\* line 151 awaiting a promise that is never fulfilled.
NeverFulfilled(ws) == FALSE

\* line 151: Promise.all is fulfilled once every promise of the array is.
AllFulfilled(ws) == \A k \in 1..Len(ws) : ws[k].st = "ok"

\* lines 95-106: resolve the URL and start the browser.
ResolveAndLaunch(p) ==
  /\ symbolsUrl' = ResolveSymbolsUrl(argv, p)
  /\ Call("launch")
  /\ pc' = "launch"

(***************************************************************************)
(* The handler, lines 89-166.                                              *)
(***************************************************************************)

\* lines 95-106 reached without lines 91-92: no server is waited for.
StartWithoutServer ==
  /\ pc = "start"
  /\ ResolveAndLaunch(0)
  /\ UNCHANGED <<argv, stable, done, extractedAt, run, prev, port, server,
                 browser, pageViewport, i, asketchPageJSONString, writes,
                 files, outDirExists, log, firstErr, reported, exitStatus>>

\* lines 90-92 (and 95-106 without --serve): the handler starts.
Start ==
  /\ pc = "start"
  /\ IF Truthy(argv.serve)
       THEN /\ Call("getPort")
            /\ pc' = "getPort"
            /\ UNCHANGED symbolsUrl
       ELSE ResolveAndLaunch(0)
  /\ UNCHANGED <<argv, stable, done, extractedAt, run, prev, port, server, browser, pageViewport,
                 i, asketchPageJSONString, writes, files, outDirExists, log,
                 firstErr, reported, exitStatus>>

\* line 91 settles, lines 18-27: getPort gave a free port and listen starts.
GetPortOk ==
  /\ pc = "getPort"
  /\ \E p \in Ports : port' = p
  /\ Call("listen")
  /\ pc' = "listen"
  /\ Done("getPort")
  /\ UNCHANGED <<argv, stable, extractedAt, run, prev, server, symbolsUrl, browser,
                 pageViewport, i, asketchPageJSONString, writes, files,
                 outDirExists, log, firstErr, reported, exitStatus>>

\* lines 26-29 and 92 settle, lines 95-106.
ListenOk ==
  /\ pc = "listen"
  /\ server' = "listening"
  /\ ResolveAndLaunch(port)
  /\ Done("listen")
  /\ UNCHANGED <<argv, stable, extractedAt, run, prev, port, browser, pageViewport, i,
                 asketchPageJSONString, writes, files, outDirExists, log,
                 firstErr, reported, exitStatus>>

\* line 106 settles, line 109.
LaunchOk ==
  /\ pc = "launch"
  /\ browser' = "running"
  /\ Call("newPage")
  /\ pc' = "newPage"
  /\ Done("launch")
  /\ UNCHANGED <<argv, stable, extractedAt, run, prev, port, server, symbolsUrl,
                 pageViewport, i, asketchPageJSONString, writes, files,
                 outDirExists, log, firstErr, reported, exitStatus>>

\* line 109 settles, lines 111-119 with the navigation left out.
NewPageOkNoGoto ==
  /\ pc = "newPage"
  /\ Call("addScriptTag")
  /\ pc' = "addScriptTag"
  /\ Done("newPage")
  /\ UNCHANGED <<argv, stable, extractedAt, run, prev, port, server,
                 symbolsUrl, browser, pageViewport, i, asketchPageJSONString,
                 writes, files, outDirExists, log, firstErr, reported,
                 exitStatus>>

\* line 109 settles, lines 111-116.
NewPageOk ==
  /\ pc = "newPage"
  /\ Call("goto")
  /\ pc' = "goto"
  /\ Done("newPage")
  /\ UNCHANGED <<argv, stable, extractedAt, run, prev, port, server, symbolsUrl, browser,
                 pageViewport, i, asketchPageJSONString, writes, files,
                 outDirExists, log, firstErr, reported, exitStatus>>

\* line 116 settles, line 119. Navigation to an undefined URL is rejected.
GotoOk ==
  /\ pc = "goto"
  /\ symbolsUrl # Undefined
  /\ Call("addScriptTag")
  /\ pc' = "addScriptTag"
  /\ Done("goto")
  /\ UNCHANGED <<argv, stable, extractedAt, run, prev, port, server, symbolsUrl, browser,
                 pageViewport, i, asketchPageJSONString, writes, files,
                 outDirExists, log, firstErr, reported, exitStatus>>

\* line 119 settles, lines 126-138 with page.setViewport not awaited.
AddScriptTagOkNoAwait ==
  /\ pc = "addScriptTag"
  /\ i' = 1
  /\ calls' = [calls EXCEPT !["setViewport"] = @ + 1, !["evaluate"] = @ + 1]
  /\ pc' = "evaluate"
  /\ Done("addScriptTag")
  /\ UNCHANGED <<argv, stable, extractedAt, run, prev, port, server,
                 symbolsUrl, browser, pageViewport, asketchPageJSONString,
                 writes, files, outDirExists, log, firstErr, reported,
                 exitStatus>>

\* line 119 settles, lines 126-136 for the first viewport.
AddScriptTagOk ==
  /\ pc = "addScriptTag"
  /\ i' = 1
  /\ Call("setViewport")
  /\ pc' = "setViewport"
  /\ Done("addScriptTag")
  /\ UNCHANGED <<argv, stable, extractedAt, run, prev, port, server, symbolsUrl, browser,
                 pageViewport, asketchPageJSONString, writes, files,
                 outDirExists, log, firstErr, reported, exitStatus>>

\* Whether the browser accepts the argument of page.setViewport: a width or
\* height that is not a number is rejected.
Accepted(viewport) == viewport.width # NaN /\ viewport.height # NaN

\* line 136 settles, line 138.
SetViewportOk ==
  /\ pc = "setViewport"
  /\ Accepted(ViewportOf[Viewports(argv)[i].spec])
  /\ pageViewport' = ViewportOf[Viewports(argv)[i].spec]
  /\ Call("evaluate")
  /\ pc' = "evaluate"
  /\ Done("setViewport")
  /\ UNCHANGED <<argv, stable, extractedAt, run, prev, port, server, symbolsUrl, browser,
                 i, asketchPageJSONString, writes, files, outDirExists, log,
                 firstErr, reported, exitStatus>>

\* What page.evaluate may return: the document of the page at its current
\* viewport, or any document when the page changes between extractions.
Extracted == IF stable THEN {PageDocument(pageViewport)} ELSE Documents

\* line 138 settles, lines 142-143.
EvaluateOk ==
  /\ pc = "evaluate"
  /\ \E d \in Extracted : asketchPageJSONString' = d
  /\ extractedAt' = pageViewport
  /\ Call("mkdirp")
  /\ pc' = "mkdirp"
  /\ Done("evaluate")
  /\ UNCHANGED <<argv, stable, run, prev, port, server, symbolsUrl, browser,
                 pageViewport, i, writes, files, outDirExists, log, firstErr,
                 reported, exitStatus>>

\* line 143 left out: the directory is as it was.
DirNotEnsured == outDirExists

\* line 143: once mkdirp has succeeded the output directory exists.
DirEnsured == TRUE

\* lines 145-147: the write that is started, not awaited.
IssuedWrite ==
  [path |-> OutputPagePath(Viewports(argv)[i].spec),
   data |-> asketchPageJSONString,
   at |-> extractedAt,
   st |-> "pending"]

\* line 143 settles, lines 145-147, then either the next iteration (lines
\* 130-136) or line 151: Promise.all over promises of which one is already
\* rejected is rejected with the reason of the first such promise of the array.
MkdirpOk ==
  /\ pc = "mkdirp"
  /\ outDirExists' = DirEnsured
  /\ writes' = Append(writes, IssuedWrite)
  /\ IF i < Len(Viewports(argv))
       THEN /\ i' = i + 1
            /\ calls' = [calls EXCEPT !["writeFile"] = @ + 1,
                                      !["setViewport"] = @ + 1]
            /\ pc' = "setViewport"
            /\ UNCHANGED <<log, browser, server, reported, exitStatus>>
       ELSE /\ calls' = [calls EXCEPT !["writeFile"] = @ + 1]
            /\ UNCHANGED i
            /\ IF FailedWrites(writes) # {}
                 THEN Teardown(2, WriteError(Min(FailedWrites(writes))))
                 ELSE /\ pc' = "promiseAll"
                      /\ UNCHANGED <<log, browser, server, reported,
                                     exitStatus>>
  /\ Done("mkdirp")
  /\ UNCHANGED <<argv, stable, extractedAt, run, prev, port, symbolsUrl, pageViewport,
                 asketchPageJSONString, files, firstErr>>

\* The operation the handler awaits is rejected: lines 152-165.
Reject ==
  /\ pc \in Ops
  /\ Raise(pc)
  /\ Teardown(ScopeOf(pc), pc)
  /\ UNCHANGED <<argv, stable, done, extractedAt, run, prev, port, symbolsUrl, pageViewport, i,
                 asketchPageJSONString, writes, files, outDirExists, calls>>

(***************************************************************************)
(* The file writes of line 146, which run beside the handler. The effect   *)
(* of fs.writeFile on the file is taken as one step: with its default flag *)
(* 'w' the file is created or truncated and then holds the data. A write   *)
(* that fails is taken to leave the file as it was.                        *)
(***************************************************************************)

\* fs.writeFile with flag 'a': the data is appended to what the file holds.
WrittenAppended(old, data) == IF old = Absent THEN data ELSE old \o data

\* The content of a file holding old after fs.writeFile(path, data).
Written(old, data) == data

\* fs.writeFile of writes[k] succeeds and its promise is fulfilled; line 151
\* then lines 152-161 when it was the last one Promise.all awaited.
WriteDone(k) ==
  /\ Alive
  /\ writes[k].st = "pending"
  /\ writes' = [writes EXCEPT ![k].st = "ok"]
  /\ files' = [files EXCEPT ![writes[k].path] = Written(@, writes[k].data)]
  /\ IF pc = "promiseAll" /\ AllFulfilled(writes')
       THEN Teardown(2, NoError)
       ELSE UNCHANGED <<pc, log, browser, server, reported, exitStatus>>
  /\ Done("writeFile")
  /\ UNCHANGED <<argv, stable, extractedAt, run, prev, port, symbolsUrl, pageViewport, i,
                 asketchPageJSONString, outDirExists, calls, firstErr>>

\* fs.writeFile of writes[k] fails and its promise is rejected; line 151 then
\* lines 152-165 when the handler awaits Promise.all.
WriteFail(k) ==
  /\ Alive
  /\ writes[k].st = "pending"
  /\ writes' = [writes EXCEPT ![k].st = "failed"]
  /\ Raise(WriteError(k))
  /\ IF pc = "promiseAll"
       THEN Teardown(2, WriteError(k))
       ELSE UNCHANGED <<pc, log, browser, server, reported, exitStatus>>
  /\ UNCHANGED <<argv, stable, done, extractedAt, run, prev, port, symbolsUrl, pageViewport, i,
                 asketchPageJSONString, files, outDirExists, calls>>

\* line 154: the browser.close() nobody awaits settles after the handler
\* has returned.
BrowserClosed ==
  /\ pc = "returned"
  /\ browser = "closing"
  /\ browser' = "closed"
  /\ log' = Append(log, "browser.closed")
  /\ UNCHANGED <<argv, stable, done, extractedAt, run, prev, pc, port, server, symbolsUrl,
                 pageViewport, i, asketchPageJSONString, writes, files,
                 outDirExists, calls, firstErr, reported, exitStatus>>

\* The handler has returned and nothing is left to do: the process ends
\* with status 0 (in debug mode, once the user has closed the browser).
ProcessEnd ==
  /\ pc = "returned"
  /\ browser # "closing"
  /\ exitStatus' = 0
  /\ pc' = "exited"
  /\ UNCHANGED <<argv, stable, done, extractedAt, run, prev, port, server, symbolsUrl, browser,
                 pageViewport, i, asketchPageJSONString, writes, files,
                 outDirExists, calls, log, firstErr, reported>>

\* After a successful run the command is invoked again with the same command
\* line; only the file system is carried over.
Rerun ==
  /\ exitStatus = 0
  /\ run < MaxRuns
  /\ run' = run + 1
  /\ prev' = files
  /\ pc' = "start"
  /\ port' = 0
  /\ server' = "null"
  /\ symbolsUrl' = Unset
  /\ browser' = "none"
  /\ pageViewport' = DefaultPageViewport
  /\ extractedAt' = DefaultPageViewport
  /\ i' = 1
  /\ asketchPageJSONString' = Undefined
  /\ writes' = << >>
  /\ calls' = [op \in Ops |-> 0]
  /\ done' = [op \in Ops |-> 0]
  /\ log' = << >>
  /\ firstErr' = NoError
  /\ reported' = NoError
  /\ exitStatus' = NoStatus
  /\ UNCHANGED <<argv, stable, files, outDirExists>>

Next ==
  \/ Start
  \/ GetPortOk
  \/ ListenOk
  \/ LaunchOk
  \/ NewPageOk
  \/ GotoOk
  \/ AddScriptTagOk
  \/ SetViewportOk
  \/ EvaluateOk
  \/ MkdirpOk
  \/ Reject
  \/ \E k \in 1..Len(writes) : WriteDone(k)
  \/ \E k \in 1..Len(writes) : WriteFail(k)
  \/ BrowserClosed
  \/ ProcessEnd
  \/ Rerun

Spec == Init /\ [][Next]_vars

(***************************************************************************)
(* The same, where every asynchronous operation eventually settles: the    *)
(* handler is started, the operation it awaits is fulfilled or rejected,   *)
(* and every write that was started is fulfilled or rejected as long as    *)
(* the process lives. The command lines are those without --file, on a     *)
(* page of fixed content.                                                  *)
(***************************************************************************)
LiveArgvs ==
  [serve : {Undefined, "site"},
   file : {Undefined},
   url : {Undefined, "/sub"},
   debug : BOOLEAN,
   viewports : ViewportMappings]

InitLive ==
  /\ argv \in LiveArgvs
  /\ stable = TRUE
  /\ run = 1
  /\ prev = NoFiles
  /\ files = NoFiles
  /\ outDirExists = FALSE
  /\ RunInit

AwaitedSettles ==
  \/ GetPortOk
  \/ ListenOk
  \/ LaunchOk
  \/ NewPageOk
  \/ GotoOk
  \/ AddScriptTagOk
  \/ SetViewportOk
  \/ EvaluateOk
  \/ MkdirpOk
  \/ Reject

WriteSettles == \E k \in 1..Len(writes) : WriteDone(k) \/ WriteFail(k)

SpecLive ==
  /\ InitLive
  /\ [][Next]_vars
  /\ WF_vars(Start)
  /\ WF_vars(AwaitedSettles)
  /\ WF_vars(WriteSettles)

(***************************************************************************)
(* The command run over one viewport whose spec string is put together     *)
(* from a width text, a height text and an optional scale, well-formed or  *)
(* not.                                                                    *)
(***************************************************************************)
ParseArgvs ==
  [serve : {Undefined, "site"},
   file : {Undefined},
   url : {"/sub"},
   debug : {FALSE},
   viewports : { << [name |-> "Desktop", spec |-> c.spec] >> : c \in ParseCases }]

InitParse ==
  /\ argv \in ParseArgvs
  /\ stable = TRUE
  /\ run = 1
  /\ prev = NoFiles
  /\ files = NoFiles
  /\ outDirExists = FALSE
  /\ RunInit

SpecParse == InitParse /\ [][Next]_vars

(***************************************************************************)
(* Properties.                                                             *)
(***************************************************************************)
Count(lg, e) == Cardinality({ k \in 1..Len(lg) : lg[k] = e })

Before(lg, a, b) ==
  \E x, y \in 1..Len(lg) : lg[x] = a /\ lg[y] = b /\ x < y

ServerStarted == server \in {"listening", "closed"}
BrowserLaunched == browser # "none"
HandlerLeft == pc \in {"returned", "exited"}
FailureReported == Count(log, "process.exit") > 0

\* C1: in a run whose static server was started, server.close is called
\* exactly once by the time the handler is left, on success and after a
\* failure of any later stage, never more than once, never without a started
\* server, and on a failure path before console.error and process.exit(1).
C1_ServerClosedExactlyOnce ==
  /\ Count(log, "server.close") <= 1
  /\ Count(log, "server.close") = 1 => ServerStarted
  /\ (ServerStarted /\ HandlerLeft) => Count(log, "server.close") = 1
  /\ (ServerStarted /\ FailureReported) =>
        /\ Before(log, "server.close", "console.error")
        /\ Before(log, "server.close", "process.exit")

\* C1 witness: navigation failed with the server running, and the failure
\* was reported after server.close.
C1_Witness ==
  /\ reported = "goto"
  /\ exitStatus = ExitFailure
  /\ server = "closed"
  /\ log = <<"browser.close", "server.close", "console.error", "process.exit">>

\* C2: in a non-debug run that acquired the server and the browser, whenever
\* the handler is left (normally or by a failure of any later stage) the
\* browser's close was called before the server's close, nothing closes the
\* server while the browser's close has not been called, and both calls
\* precede the report of the failure.
C2_ReverseAcquisitionOrder ==
  (~argv.debug /\ ServerStarted /\ BrowserLaunched) =>
     /\ Count(log, "server.close") = 1 => Before(log, "browser.close", "server.close")
     /\ HandlerLeft => Before(log, "browser.close", "server.close")
     /\ FailureReported =>
          /\ Before(log, "browser.close", "console.error")
          /\ Before(log, "server.close", "console.error")
          /\ Before(log, "console.error", "process.exit")

\* C2 witness: extraction failed in a non-debug served run; browser.close,
\* server.close and the report happened in this order.
C2_Witness ==
  /\ ~argv.debug
  /\ reported = "evaluate"
  /\ browser = "closing"
  /\ server = "closed"
  /\ log = <<"browser.close", "server.close", "console.error", "process.exit">>

\* C3: with the debug flag browser.close is never called, while a started
\* server is still closed when the handler is left; without the flag a
\* launched browser has its close called exactly once whenever the handler
\* is left.
C3_DebugKeepsBrowser ==
  /\ argv.debug =>
        /\ Count(log, "browser.close") = 0
        /\ browser \in {"none", "running"}
        /\ (ServerStarted /\ HandlerLeft) => Count(log, "server.close") = 1
  /\ (~argv.debug /\ BrowserLaunched /\ HandlerLeft) =>
        Count(log, "browser.close") = 1
  /\ ~BrowserLaunched => Count(log, "browser.close") = 0

\* C3 witness: a debug run that failed at script injection left the browser
\* running and closed the server.
C3_Witness ==
  /\ argv.debug
  /\ reported = "addScriptTag"
  /\ browser = "running"
  /\ log = <<"server.close", "console.error", "process.exit">>

AllSettled == \A k \in 1..Len(writes) : writes[k].st \in {"ok", "failed"}

\* Entries j and k of the viewports have different names and one spec string,
\* k is processed after j and both their writes were issued.
Collide(j, k) ==
  /\ j < k
  /\ k <= Len(writes)
  /\ Viewports(argv)[j].name # Viewports(argv)[k].name
  /\ Viewports(argv)[j].spec = Viewports(argv)[k].spec

\* C4: when two viewport entries with different names share one spec string
\* and all writes of the run have settled successfully, the one file
\* page-<spec>.asketch.json holds the document captured for the entry
\* processed last, whatever the order in which the writes completed.
C4_LaterDocumentWins ==
  \A j, k \in 1..Len(writes) :
    (/\ Collide(j, k)
     /\ \A m \in 1..Len(writes) : writes[m].st = "ok"
     /\ \A m \in 1..Len(writes) : writes[m].path = writes[k].path => m <= k)
    => /\ writes[j].path = writes[k].path
       /\ files[writes[k].path] = writes[k].data

\* C5: the handler is left normally, and the process ends with status 0,
\* only when one write per viewport was issued and every one of them has
\* been fulfilled: none is pending and none has failed.
C5_SuccessAfterAllWrites ==
  (pc = "returned" \/ exitStatus = 0) =>
     /\ Len(writes) = Len(Viewports(argv))
     /\ \A k \in 1..Len(writes) : writes[k].st = "ok"

\* C5 witness: a run over two viewports ended with status 0.
C5_Witness ==
  /\ exitStatus = 0
  /\ Len(writes) = 2
  /\ writes[1].st = "ok"
  /\ writes[2].st = "ok"

\* C6: a process that has ended has status 0 exactly when no stage of the
\* run failed and status 1 exactly when some stage (or file write) failed,
\* and with status 1 an error was passed to console.error before
\* process.exit was called.
C6_ExitStatus ==
  /\ exitStatus \in {NoStatus, 0, 1}
  /\ exitStatus = 0 =>
        /\ firstErr = NoError
        /\ reported = NoError
        /\ Count(log, "console.error") = 0
  /\ (exitStatus # NoStatus /\ firstErr # NoError) =>
        /\ exitStatus = 1
        /\ reported # NoError
        /\ Before(log, "console.error", "process.exit")
  /\ exitStatus = 1 => firstErr # NoError
  /\ (pc \in {"returned", "promiseAll"}) => firstErr = NoError

\* C6 witness: a file write failed while Promise.all was awaited and the
\* process ended with status 1 after printing that error.
C6_Witness ==
  /\ exitStatus = 1
  /\ firstErr = "writeFile#1"
  /\ reported = "writeFile#1"
  /\ Len(writes) = 2
  /\ writes[2].st = "ok"

NoTarget == argv.file = Undefined /\ argv.url = Undefined /\ argv.serve = Undefined

\* C7 as stated: when none of file, url and serve is configured,
\* puppeteer.launch is never called.
C7_NoLaunchWithoutTarget == NoTarget => calls["launch"] = 0

\* C7 as amended: when none of file, url and serve is configured the URL
\* resolves to undefined, puppeteer.launch is nevertheless called as soon as
\* the handler starts, and the run fails at page.goto at the latest: the
\* extraction script is never injected, the process never ends with status
\* 0, and the error reported is that of launch, newPage or goto.
C7_FailsAtNavigation ==
  NoTarget =>
     /\ symbolsUrl \in {Unset, Undefined}
     /\ pc # "start" => calls["launch"] = 1
     /\ calls["goto"] = 1 => (calls["launch"] = 1 /\ calls["newPage"] = 1)
     /\ calls["addScriptTag"] = 0
     /\ writes = << >>
     /\ exitStatus # 0
     /\ exitStatus = 1 => reported \in {"launch", "newPage", "goto"}

\* C7 witness: with nothing configured the browser was launched, a page was
\* opened, and navigation failed.
C7_Witness ==
  /\ NoTarget
  /\ calls["launch"] = 1
  /\ browser = "closing"
  /\ reported = "goto"
  /\ exitStatus = 1

Resolved == symbolsUrl # Unset

\* C8 as stated: the file takes precedence, also when serve is set; else
\* serve; else the url verbatim.
C8_FileFirst ==
  Resolved =>
    symbolsUrl =
      IF argv.file # Undefined THEN "file:///w/a.html"
      ELSE IF argv.serve # Undefined
        THEN "http://localhost:" \o PortString(port) \o
               (IF argv.url = Undefined THEN "/"
                ELSE IF argv.url = "/sub" THEN "/sub"
                ELSE "/http://ex.com/p")
      ELSE argv.url

\* C8 as amended: serve takes precedence, also when file is set: if serve is
\* set the URL is the join of http://localhost:<port> with url (default
\* '/'); else if file is given it is the file:// URL of cwd joined with the
\* file path; else it is the configured url verbatim (undefined when there
\* is none). The port is the one getPort returned.
C8_ServeFirst ==
  /\ Resolved =>
       symbolsUrl =
         IF argv.serve # Undefined
           THEN "http://localhost:" \o PortString(port) \o
                  (IF argv.url = Undefined THEN "/"
                   ELSE IF argv.url = "/sub" THEN "/sub"
                   ELSE "/http://ex.com/p")
         ELSE IF argv.file # Undefined THEN "file:///w/a.html"
         ELSE argv.url
  /\ (Resolved /\ argv.serve # Undefined) => port \in Ports
  /\ calls["launch"] > 0 => Resolved

\* C8 witness: serve and file are both set and the browser was sent to the
\* served URL.
C8_Witness ==
  /\ argv.serve = "site"
  /\ argv.file = "./a.html"
  /\ argv.url = Undefined
  /\ symbolsUrl = "http://localhost:3001/"
  /\ calls["goto"] = 1

\* C9: a write is issued only after a mkdirp of the output directory has
\* succeeded (the directory exists, and there are never more writes than
\* mkdirp calls that have succeeded), and once a mkdirp has failed no write
\* is issued any more.
C9_DirectoryBeforeWrites ==
  /\ calls["writeFile"] = Len(writes)
  /\ Len(writes) > 0 => outDirExists
  /\ Len(writes) <= calls["mkdirp"]
  /\ pc = "mkdirp" => Len(writes) = calls["mkdirp"] - 1
  /\ reported = "mkdirp" => Len(writes) = calls["mkdirp"] - 1

\* C9 witness: the second mkdirp failed; the only write is the one issued
\* after the first mkdirp.
C9_Witness ==
  /\ reported = "mkdirp"
  /\ calls["mkdirp"] = 2
  /\ Len(writes) = 1
  /\ outDirExists

\* C10: with a page of fixed content and a deterministic extraction, when
\* the command has run successfully and is run again successfully with the
\* same command line, the output files and their contents after the second
\* run are those after the first, whatever the viewport mapping and the
\* order in which the writes completed; each file holds the document of its
\* spec string.
C10_Idempotent ==
  (stable /\ run >= 2 /\ exitStatus = 0) =>
     /\ files = prev
     /\ \A k \in 1..Len(writes) :
          files[writes[k].path] =
            (IF Viewports(argv)[k].spec = "1024x768" THEN "docA" ELSE "docB")
     /\ \A q \in OutPaths :
          files[q] # Absent <=> \E k \in 1..Len(writes) : writes[k].path = q

\* C10 witness: the second successful run over two names sharing one spec
\* string left the single file as the first run did.
C10_Witness ==
  /\ stable
  /\ run = 2
  /\ exitStatus = 0
  /\ Len(writes) = 2
  /\ writes[1].path = writes[2].path
  /\ files[writes[1].path] = "docA"
  /\ prev = files

CaseOf(spec) == CHOOSE c \in ParseCases : c.spec = spec

\* Entry k of the viewports has had its page.setViewport fulfilled.
Resized(k) == done["setViewport"] >= k

\* C11: a viewport spec WxH or WxH@S with numeric W and H is applied to the
\* page as width W, height H and deviceScaleFactor S (1 without '@S'); a spec
\* whose W or H is not numeric is never applied to the page, and a run that
\* reached it does not end with status 0.
C11_ParsedOrRejected ==
  \A k \in 1..Len(Viewports(argv)) :
    LET c == CaseOf(Viewports(argv)[k].spec)
    IN  /\ (c.numeric /\ i = k /\ pc = "evaluate") =>
              pageViewport = [width |-> c.width, height |-> c.height,
                              deviceScaleFactor |-> c.scale]
        /\ Resized(k) => c.numeric
        /\ (~c.numeric /\ calls["setViewport"] >= k) => exitStatus # 0

\* C11, the part about well-formed specs alone: numeric W and H, with or
\* without a scale, arrive at the page as written.
C11_WellFormedApplied ==
  \A k \in 1..Len(Viewports(argv)) :
    LET c == CaseOf(Viewports(argv)[k].spec)
    IN  (c.numeric /\ i = k /\ pc = "evaluate") =>
           pageViewport = [width |-> c.width, height |-> c.height,
                           deviceScaleFactor |-> c.scale]

\* The argument of page.setViewport that the spec strings of SpecStrs stand
\* for.
Meant(spec) ==
  IF spec = "1024x768"
    THEN [width |-> 1024, height |-> 768,
          deviceScaleFactor |-> [whole |-> 1, tenths |-> 0]]
    ELSE [width |-> 320, height |-> 568,
          deviceScaleFactor |-> [whole |-> 2, tenths |-> 0]]

\* C12: there is at most one write per viewport entry processed; the write
\* of entry k targets <outDir>/page-<spec of k>.asketch.json, exists only
\* once the extraction of entry k has completed, and carries the text
\* extracted while the page had the viewport of entry k: between the resize
\* of an entry and its extraction the page keeps that entry's viewport.
C12_WritePerEntry ==
  /\ Len(writes) <= Len(Viewports(argv))
  /\ Len(writes) \in {i - 1, i}
  /\ calls["writeFile"] = Len(writes)
  /\ \A k \in 1..Len(writes) :
       /\ done["evaluate"] >= k
       /\ writes[k].path =
            "/w/out/page-" \o Viewports(argv)[k].spec \o ".asketch.json"
       /\ writes[k].at = Meant(Viewports(argv)[k].spec)
       /\ stable =>
            writes[k].data =
              (IF Viewports(argv)[k].spec = "1024x768" THEN "docA" ELSE "docB")
  /\ pc \in {"evaluate", "mkdirp"} =>
       pageViewport = Meant(Viewports(argv)[i].spec)
  /\ pc = "mkdirp" => extractedAt = Meant(Viewports(argv)[i].spec)

\* C12 witness: two entries of different specs were processed and each has
\* its one write, of the text extracted at its own viewport.
C12_Witness ==
  /\ Len(writes) = 2
  /\ writes[1].path = "/w/out/page-1024x768.asketch.json"
  /\ writes[1].at.width = 1024
  /\ writes[2].path = "/w/out/page-320x568@2.asketch.json"
  /\ writes[2].at.width = 320
  /\ writes[2].at.deviceScaleFactor.whole = 2

\* Operations of op started and neither fulfilled nor rejected.
InFlight(op) ==
  calls[op] - done[op] - (IF firstErr = op \/ reported = op THEN 1 ELSE 0)

\* C13: in the capture loop the page is used by one operation at a time: an
\* extraction is started only when the setViewport of its entry has
\* completed, the setViewport of the next entry only when the extraction of
\* the entry before has completed, and at most one of them is in flight; the
\* write of an entry is not waited for.
C13_PageUsedSequentially ==
  /\ InFlight("setViewport") + InFlight("evaluate") \in {0, 1}
  /\ calls["evaluate"] = done["setViewport"]
  /\ calls["setViewport"] <= done["evaluate"] + 1
  /\ calls["setViewport"] <= Len(Viewports(argv))
  /\ pc = "setViewport" => (InFlight("setViewport") = 1 /\ calls["setViewport"] = i)
  /\ pc = "evaluate" =>
       /\ InFlight("evaluate") = 1
       /\ calls["evaluate"] = i
       /\ pageViewport = Meant(Viewports(argv)[i].spec)

\* C13 witness: the second entry is being extracted while the write of the
\* first is still pending.
C13_Witness ==
  /\ pc = "evaluate"
  /\ i = 2
  /\ writes[1].st = "pending"
  /\ done["setViewport"] = 2
  /\ done["evaluate"] = 1

\* C14: page.addScriptTag is called at most once in a run, exactly once in a
\* run that returns normally, only after page.goto was fulfilled; no
\* setViewport or extraction is started before it was fulfilled, and when it
\* is rejected no viewport is resized, extracted or written.
C14_InjectedOnce ==
  /\ calls["addScriptTag"] <= 1
  /\ calls["addScriptTag"] = 1 => done["goto"] = 1
  /\ (calls["setViewport"] > 0 \/ calls["evaluate"] > 0) =>
        done["addScriptTag"] = 1
  /\ pc = "returned" => done["addScriptTag"] = 1
  /\ reported = "addScriptTag" =>
        /\ calls["setViewport"] = 0
        /\ calls["evaluate"] = 0
        /\ writes = << >>

\* C14 witness: a run over two viewports returned after one injection.
C14_Witness ==
  /\ pc = "returned"
  /\ calls["addScriptTag"] = 1
  /\ done["goto"] = 1
  /\ done["evaluate"] = 2

\* C15: once an operation of the run has failed, no further operation is
\* started (no launch, newPage, goto, addScriptTag, setViewport, evaluate,
\* mkdirp or writeFile): the counts of started operations stay as they are.
C15_FailureAborts == [][firstErr # NoError => calls' = calls]_vars

\* C15, the part about the operations the handler awaits: once the catch
\* clause has an error, nothing is started any more, and the operations
\* outside the loop are started at most once.
C15_AwaitedFailureAborts ==
  /\ reported # NoError =>
       (pc = "exited" /\ \A op \in Ops \ {"writeFile"} : calls[op] - done[op] <= 1)
  /\ \A op \in {"getPort", "listen", "launch", "newPage", "goto", "addScriptTag"} :
       calls[op] <= 1

\* C16: the error a failed run reports is the first error raised in the run.
C16_FirstErrorReported == reported # NoError => reported = firstErr

\* C17: with --serve, puppeteer.launch and page.goto are called only after
\* listen was fulfilled; when getPort or listen is rejected the browser is
\* never launched and neither server.close nor browser.close is called.
C17_ServerBeforeBrowser ==
  /\ (argv.serve # Undefined /\ calls["launch"] > 0) =>
        /\ done["getPort"] = 1
        /\ done["listen"] = 1
        /\ server \in {"listening", "closed"}
        /\ port \in Ports
  /\ (argv.serve # Undefined /\ calls["goto"] > 0) => done["listen"] = 1
  /\ reported \in {"getPort", "listen"} =>
        /\ calls["launch"] = 0
        /\ browser = "none"
        /\ server = "null"
        /\ log = <<"console.error", "process.exit">>

\* C17 witness: listen was rejected; nothing was launched and nothing
\* closed.
C17_Witness ==
  /\ reported = "listen"
  /\ exitStatus = 1
  /\ calls["launch"] = 0
  /\ log = <<"console.error", "process.exit">>

\* C18: in a non-debug run that fails after the browser was launched, the
\* close of the browser has completed before server.close is called and
\* before the failure is reported.
C18_BrowserClosedBeforeReport ==
  (~argv.debug /\ BrowserLaunched /\ FailureReported) =>
     /\ browser = "closed"
     /\ Before(log, "browser.closed", "console.error")
     /\ Count(log, "server.close") = 1 =>
          Before(log, "browser.closed", "server.close")

\* C19: when every asynchronous operation eventually settles, a run of the
\* command that has started eventually leaves the handler: it returns after
\* all writes were fulfilled and the teardown was done, or it reports a
\* failure.
C19_RunTerminates == (pc = "start") ~> (pc \in {"returned", "exited"})

\* C19 witness: a run over two viewports has gone through the whole
\* pipeline and returned with both writes fulfilled.
C19_Witness ==
  /\ pc = "returned"
  /\ done["mkdirp"] = 2
  /\ done["writeFile"] = 2
  /\ log = <<"browser.close", "server.close">>

====
